---- MODULE Spec2Model ----
(***************************************************************************)
(* Book Buddy API: the request lifecycle (createRequest, updateRequest,    *)
(* deleteRequest), the book and account handlers that touch requests and   *)
(* books, and the admin handlers, over a document store holding the users, *)
(* books and requests collections.                                         *)
(*                                                                         *)
(* A handler is an operator that reads the store (the variables) and       *)
(* yields its HTTP response together with the store it leaves behind; an   *)
(* action applies one handler.  Spec runs the request and book routes      *)
(* behind their middleware, SpecAdmin the request routes with account      *)
(* deactivation and the admin routes, SpecCtl the request controller       *)
(* called directly with a verified identity, SpecConc createRequest split  *)
(* at its awaits, SpecAwait updateRequest split at its awaits, SpecRate    *)
(* the request routes with the rating route, SpecBooks request creation    *)
(* beside the book routes, SpecRequests creation and the transition        *)
(* endpoint alone, SpecAccounts the request routes with the operations     *)
(* that set isActive on a user, SpecOwnership the request routes with the  *)
(* owner's updateBook, SpecRating rateRequest split at its awaits,         *)
(* SpecUser the operations open to a user that write requests or           *)
(* deactivate books.                                                       *)
(***************************************************************************)
EXTENDS Integers, Sequences, FiniteSets, Bags, TLC

VARIABLES users, books, requests, calls

vars == <<users, books, requests, calls>>

\* Bounds of the model.
MaxRequests == 2
MaxCalls == 2
MaxRatings == 2
MaxRacedRequests == 1

\* The accounts and books of the seeded store, and ids no document has.
Users == {"alice", "bob", "carol"}
BookIds == {"b1", "b2"}
MissingBook == "b0"
NoBook == "none"
Undefined == "undefined"

Statuses == {"pending", "accepted", "rejected", "completed", "cancelled"}
\* Values a request body can carry as status (any string, or nothing).
StatusInputs == Statuses \cup {Undefined}
Types == {"free", "exchange"}
\* A rating field that was never set (undefined, falsy).
Unrated == 0
\* Ratings the body schema admits, and what a body can carry beside them.
Ratings == {1, 4}
RatingInputs == Ratings \cup {0, 6}
BookStatuses == {"Available", "Not Available"}

\* The slot of a removed request document (ids are never reused).
Tombstone ==
  [requester |-> "none", book |-> "none", owner |-> "none", type |-> "none",
   status |-> "deleted", offeredBooks |-> NoBook, completedAt |-> FALSE,
   rating |-> [requesterRating |-> Unrated, ownerRating |-> Unrated]]

NoData == [requester |-> "none", book |-> "none", owner |-> "none",
           type |-> "none", offeredBooks |-> NoBook]

RequestIds == 1..Len(requests)
Exists(id) == id \in RequestIds /\ requests[id].status # "deleted"
LiveIds == {id \in RequestIds : Exists(id)}

\* A response and the store the handler leaves.
Response(code, msg, reqs, bks, usrs) ==
  [code |-> code, msg |-> msg, requests |-> reqs, books |-> bks, users |-> usrs]
\* An early return: nothing written.
Fail(code, msg) == Response(code, msg, requests, books, users)

-----------------------------------------------------------------------------
(* models/Request.js *)

\* The schema's status enum, enforced only where validators run.
StatusEnum == {"pending", "accepted", "completed"}

\* The unique partial index {requester, book, status} on status = pending:
\* would document d, stored under id, duplicate a pending one?
DuplicatePending(reqs, id, d) ==
  /\ d.status = "pending"
  /\ \E j \in 1..Len(reqs) :
       /\ j # id
       /\ reqs[j].status = "pending"
       /\ reqs[j].requester = d.requester
       /\ reqs[j].book = d.book

NewRequest(data) ==
  [requester |-> data.requester, book |-> data.book, owner |-> data.owner,
   type |-> data.type, status |-> "pending", offeredBooks |-> data.offeredBooks,
   completedAt |-> FALSE,
   rating |-> [requesterRating |-> Unrated, ownerRating |-> Unrated]]

\* Mutant: the insert with no unique index behind it.
RequestCreateNoIndex(data) ==
  Response(201, <<"Request created successfully">>,
           Append(requests, NewRequest(data)), books, users)

\* Request.create(requestData): the insert, refused by the unique index.
RequestCreate(data) ==
  IF DuplicatePending(requests, 0, NewRequest(data))
  THEN Fail(500, <<"E11000 duplicate key error">>)
  ELSE Response(201, <<"Request created successfully">>,
                Append(requests, NewRequest(data)), books, users)

-----------------------------------------------------------------------------
(* controllers/requestController.js *)

\* Mutant: a soft-deleted book still counts as found.
BookFoundInactive(bookId) == bookId \in BookIds

\* Book.findById(bookId) found a book, and it is active.
BookFound(bookId) == bookId \in BookIds /\ books[bookId].isActive

\* Mutant: the duplicate check forgets the status filter.
ExistingRequestAnyStatus(caller, bookId) ==
  \E id \in LiveIds :
    requests[id].requester = caller /\ requests[id].book = bookId

\* Request.findOne({requester, book, status: pending}) found a request.
ExistingRequest(caller, bookId) ==
  \E id \in LiveIds :
    /\ requests[id].requester = caller
    /\ requests[id].book = bookId
    /\ requests[id].status = "pending"

\* Mutant: the offered book need not be the caller's.
UserBookAnyOwner(caller, offeredBooks) ==
  /\ offeredBooks \in BookIds
  /\ books[offeredBooks].isActive
  /\ books[offeredBooks].status = "Available"

\* Book.findOne({_id, owner, isActive: true, status: Available}) found one.
UserBook(caller, offeredBooks) ==
  /\ offeredBooks \in BookIds
  /\ books[offeredBooks].owner = caller
  /\ books[offeredBooks].isActive
  /\ books[offeredBooks].status = "Available"

\* Mutant: the caller may request a book of their own.
createRequestChecksOwnBook(caller, bookId, type, offeredBooks) ==
  LET fail(code, msg) == [code |-> code, msg |-> msg, data |-> NoData] IN
  IF ~BookFound(bookId)
  THEN fail(404, <<"Book not found">>)
  ELSE IF books[bookId].status # "Available"
  THEN fail(400, <<"Book is not available for requests">>)
  ELSE IF ExistingRequest(caller, bookId)
  THEN fail(400, <<"You already have a pending request for this book">>)
  ELSE IF type = "exchange" /\ offeredBooks = NoBook
  THEN fail(400, <<"Exchange requests must include an offered book">>)
  ELSE IF type = "exchange" /\ ~UserBook(caller, offeredBooks)
  THEN fail(400, <<"Offered book is not valid or not available">>)
  ELSE [code |-> 0, msg |-> <<>>,
        data |-> [requester |-> caller, book |-> bookId,
                  owner |-> books[bookId].owner, type |-> type,
                  offeredBooks |-> IF type = "exchange" THEN offeredBooks
                                   ELSE NoBook]]

\* createRequest up to its last await before Request.create: code 0 when
\* every check passed, with the requestData to insert.
createRequestChecks(caller, bookId, type, offeredBooks) ==
  LET fail(code, msg) == [code |-> code, msg |-> msg, data |-> NoData] IN
  IF ~BookFound(bookId)
  THEN fail(404, <<"Book not found">>)
  ELSE IF books[bookId].status # "Available"
  THEN fail(400, <<"Book is not available for requests">>)
  ELSE IF books[bookId].owner = caller
  THEN fail(400, <<"You cannot request your own book">>)
  ELSE IF ExistingRequest(caller, bookId)
  THEN fail(400, <<"You already have a pending request for this book">>)
  ELSE IF type = "exchange" /\ offeredBooks = NoBook
  THEN fail(400, <<"Exchange requests must include an offered book">>)
  ELSE IF type = "exchange" /\ ~UserBook(caller, offeredBooks)
  THEN fail(400, <<"Offered book is not valid or not available">>)
  ELSE [code |-> 0, msg |-> <<>>,
        data |-> [requester |-> caller, book |-> bookId,
                  owner |-> books[bookId].owner, type |-> type,
                  offeredBooks |-> IF type = "exchange" THEN offeredBooks
                                   ELSE NoBook]]

\* Mutant: every refusal is reported as 400.
createRequestAlways400(caller, bookId, type, offeredBooks) ==
  LET c == createRequestChecks(caller, bookId, type, offeredBooks) IN
  IF c.code # 0 THEN Fail(400, c.msg) ELSE RequestCreate(c.data)

createRequest(caller, bookId, type, offeredBooks) ==
  LET c == createRequestChecks(caller, bookId, type, offeredBooks) IN
  IF c.code # 0 THEN Fail(c.code, c.msg) ELSE RequestCreate(c.data)

\* Mutant: a rejected request can still be accepted.
validTransitionsReopen(from) ==
  CASE from = "pending" -> {"accepted", "rejected", "cancelled"}
    [] from = "accepted" -> {"completed", "cancelled"}
    [] from = "rejected" -> {"accepted"}
    [] OTHER -> {}

validTransitions(from) ==
  CASE from = "pending" -> {"accepted", "rejected", "cancelled"}
    [] from = "accepted" -> {"completed", "cancelled"}
    [] OTHER -> {}

\* Mutant: either party may cancel.
AuthorizedEitherParty(request, caller, status) ==
  CASE status \in {"accepted", "rejected"} -> request.owner = caller
    [] status \in {"cancelled", "completed"} ->
         request.requester = caller \/ request.owner = caller
    [] OTHER -> TRUE

\* The authorization branch of updateRequest: TRUE when it lets the call on.
Authorized(request, caller, status) ==
  CASE status \in {"accepted", "rejected"} -> request.owner = caller
    [] status = "cancelled" -> request.requester = caller
    [] status = "completed" ->
         request.requester = caller \/ request.owner = caller
    [] OTHER -> TRUE

ForbiddenMsg(status) ==
  CASE status \in {"accepted", "rejected"} ->
         <<"Only book owner can accept or reject requests">>
    [] status = "cancelled" -> <<"Only requester can cancel the request">>
    [] OTHER -> <<"Not authorized to update this request">>

\* Mutant: completedAt is never written.
RequestUpdateNoDate(reqs, id, status) ==
  [reqs EXCEPT ![id].status = status]

\* Request.findByIdAndUpdate(id, updateData): no validators run.
RequestUpdate(reqs, id, status) ==
  [reqs EXCEPT ![id].status = status,
               ![id].completedAt = IF status = "completed" THEN TRUE ELSE @]

\* Mutant: accepting an exchange also takes the offered book off the shelf.
BookUpdatesOffered(bks, request, status) ==
  IF status = "accepted"
  THEN LET target == [bks EXCEPT ![request.book].status = "Not Available"]
       IN IF request.offeredBooks # NoBook
          THEN [target EXCEPT ![request.offeredBooks].status = "Not Available"]
          ELSE target
  ELSE IF status = "completed"
  THEN LET target == [bks EXCEPT ![request.book].status = "Not Available",
                                 ![request.book].owner = request.requester]
       IN IF request.type = "exchange" /\ request.offeredBooks # NoBook
          THEN [target EXCEPT ![request.offeredBooks].status = "Not Available",
                              ![request.offeredBooks].owner = request.owner]
          ELSE target
  ELSE bks

\* Mutant: a cancellation or rejection puts the book back on the shelf.
BookUpdatesRestore(bks, request, status) ==
  IF status = "accepted"
  THEN [bks EXCEPT ![request.book].status = "Not Available"]
  ELSE IF status = "completed"
  THEN LET target == [bks EXCEPT ![request.book].status = "Not Available",
                                 ![request.book].owner = request.requester]
       IN IF request.type = "exchange" /\ request.offeredBooks # NoBook
          THEN [target EXCEPT ![request.offeredBooks].status = "Not Available",
                              ![request.offeredBooks].owner = request.owner]
          ELSE target
  ELSE IF status \in {"rejected", "cancelled"}
  THEN [bks EXCEPT ![request.book].status = "Available"]
  ELSE bks

\* The Book.findByIdAndUpdate calls that follow, from the request as read.
BookUpdates(bks, request, status) ==
  IF status = "accepted"
  THEN [bks EXCEPT ![request.book].status = "Not Available"]
  ELSE IF status = "completed"
  THEN LET target == [bks EXCEPT ![request.book].status = "Not Available",
                                 ![request.book].owner = request.requester]
       IN IF request.type = "exchange" /\ request.offeredBooks # NoBook
          THEN [target EXCEPT ![request.offeredBooks].status = "Not Available",
                              ![request.offeredBooks].owner = request.owner]
          ELSE target
  ELSE bks

updateRequest(caller, id, status) ==
  IF ~Exists(id) THEN Fail(404, <<"Request not found">>)
  ELSE LET request == requests[id] IN
    IF ~Authorized(request, caller, status)
    THEN Fail(403, ForbiddenMsg(status))
    ELSE IF status \notin validTransitions(request.status)
    THEN Fail(400, <<"Cannot change status from", request.status, "to", status>>)
    ELSE Response(200, <<"Request", status, "successfully">>,
                  RequestUpdate(requests, id, status),
                  BookUpdates(books, request, status), users)

\* Mutant: the requester may delete a request of any status.
deleteRequestAnyStatus(caller, id) ==
  IF ~Exists(id) THEN Fail(404, <<"Request not found">>)
  ELSE IF requests[id].requester # caller
  THEN Fail(403, <<"Not authorized to delete this request">>)
  ELSE Response(200, <<"Request deleted successfully">>,
                [requests EXCEPT ![id] = Tombstone], books, users)

deleteRequest(caller, id) ==
  IF ~Exists(id) THEN Fail(404, <<"Request not found">>)
  ELSE IF requests[id].requester # caller
  THEN Fail(403, <<"Not authorized to delete this request">>)
  ELSE IF requests[id].status \notin {"cancelled", "rejected"}
  THEN Fail(400, <<"Can only delete cancelled or rejected requests">>)
  ELSE Response(200, <<"Request deleted successfully">>,
                [requests EXCEPT ![id] = Tombstone], books, users)

-----------------------------------------------------------------------------
(* models/User.js: rating.average is kept as an exact fraction <<n, d>> in
   lowest terms, rating.count as a number. *)

RECURSIVE GCD(_, _)
GCD(a, b) == IF b = 0 THEN a ELSE GCD(b, a % b)

Reduce(f) ==
  LET g == GCD(f[1], f[2]) IN
  IF g = 0 THEN <<0, 1>> ELSE <<f[1] \div g, f[2] \div g>>

\* Mutant: the count is left as it was.
updateRatingNoCount(rating, newRating) ==
  LET totalRating == <<rating.average[1] * rating.count
                         + newRating * rating.average[2], rating.average[2]>>
  IN [average |-> Reduce(<<totalRating[1], totalRating[2] * (rating.count + 1)>>),
      count |-> rating.count]

\* userSchema.methods.updateRating, on the rating subdocument.
updateRating(rating, newRating) ==
  LET totalRating == <<rating.average[1] * rating.count
                         + newRating * rating.average[2], rating.average[2]>>
      count == rating.count + 1
  IN [average |-> Reduce(<<totalRating[1], totalRating[2] * count>>),
      count |-> count]

\* The schema's validator on rating.average (min 0, max 5), run by save().
AverageValid(rating) ==
  rating.average[1] >= 0 /\ rating.average[1] <= 5 * rating.average[2]

-----------------------------------------------------------------------------
(* controllers/requestController.js: rateRequest *)

\* Mutant: a side that has rated is not remembered.
AlreadyRatedNever(request, side) == FALSE

\* if (request.rating.requesterRating) / if (request.rating.ownerRating)
AlreadyRated(request, side) == request.rating[side] # Unrated

\* The rater's side is recorded and the counterparty's rating updated:
\* counterparty.updateRating(rating) saves the user, then request.save()
\* saves the request; either save can be refused by its schema's validators.
RateSide(id, side, counterparty, rating) ==
  LET newRating == updateRating(users[counterparty].rating, rating) IN
  IF ~AverageValid(newRating)
  THEN Fail(500, <<"User validation failed: rating.average">>)
  ELSE LET usrs == [users EXCEPT ![counterparty].rating = newRating] IN
       IF rating < 1 \/ rating > 5
       THEN Response(500, <<"Request validation failed: rating">>,
                     requests, books, usrs)
       ELSE Response(200, <<"Rating submitted successfully">>,
                     [requests EXCEPT ![id].rating[side] = rating], books, usrs)

rateRequest(caller, id, rating) ==
  IF ~Exists(id) THEN Fail(404, <<"Request not found">>)
  ELSE LET request == requests[id]
           isRequester == request.requester = caller
           isOwner == request.owner = caller
       IN IF request.status # "completed"
          THEN Fail(400, <<"Can only rate completed requests">>)
          ELSE IF ~isRequester /\ ~isOwner
          THEN Fail(403, <<"Not authorized to rate this request">>)
          ELSE IF isRequester
          THEN IF AlreadyRated(request, "requesterRating")
               THEN Fail(400, <<"You have already rated this request">>)
               ELSE RateSide(id, "requesterRating", request.owner, rating)
          ELSE IF AlreadyRated(request, "ownerRating")
               THEN Fail(400, <<"You have already rated this request">>)
               ELSE RateSide(id, "ownerRating", request.requester, rating)

-----------------------------------------------------------------------------
(* controllers/bookController.js *)

\* What the body of PUT /api/books/:id says about status and owner (the
\* other keys the schema admits are not part of the state modelled).
BookBodies ==
  [status : BookStatuses \cup {Undefined}, owner : Users \cup {Undefined}]

\* Book.findByIdAndUpdate(id, req.body): the keys the body carries.
BookUpdate(book, body) ==
  [book EXCEPT
     !.status = IF body.status = Undefined THEN @ ELSE body.status,
     !.owner = IF body.owner = Undefined THEN @ ELSE body.owner]

updateBook(caller, bookId, body) ==
  IF bookId \notin BookIds THEN Fail(404, <<"Book not found">>)
  ELSE IF books[bookId].owner # caller
  THEN Fail(403, <<"Not authorized to update this book">>)
  ELSE Response(200, <<"Book updated successfully">>, requests,
                [books EXCEPT ![bookId] = BookUpdate(@, body)], users)

deleteBook(caller, bookId) ==
  IF bookId \notin BookIds THEN Fail(404, <<"Book not found">>)
  ELSE IF books[bookId].owner # caller
  THEN Fail(403, <<"Not authorized to delete this book">>)
  ELSE IF \E id \in LiveIds :
            requests[id].book = bookId /\ requests[id].status = "pending"
  THEN Fail(400, <<"Cannot delete book with pending requests">>)
  ELSE Response(200, <<"Book deleted successfully">>, requests,
                [books EXCEPT ![bookId].isActive = FALSE,
                              ![bookId].status = "Not Available"], users)

-----------------------------------------------------------------------------
(* controllers/userController.js, controllers/adminController.js *)

\* Mutant: only the requests the user made are cancelled.
CancelPendingAsRequester(reqs, userId) ==
  [id \in 1..Len(reqs) |->
     IF reqs[id].status = "pending" /\ reqs[id].requester = userId
     THEN [reqs[id] EXCEPT !.status = "cancelled"]
     ELSE reqs[id]]

\* Request.updateMany({$or: [{requester}, {owner}], status: pending},
\*                    {status: cancelled}): no validators run.
CancelPendingOfUser(reqs, userId) ==
  [id \in 1..Len(reqs) |->
     IF /\ reqs[id].status = "pending"
        /\ (reqs[id].requester = userId \/ reqs[id].owner = userId)
     THEN [reqs[id] EXCEPT !.status = "cancelled"]
     ELSE reqs[id]]

\* Book.updateMany({owner}, {'availability.status': ..., isActive: false}):
\* the schema has no availability path, so strict mode drops that key.
DeactivateBooksOfUser(bks, userId) ==
  [b \in BookIds |->
     IF bks[b].owner = userId THEN [bks[b] EXCEPT !.isActive = FALSE]
     ELSE bks[b]]

deactivateAccount(caller) ==
  Response(200, <<"Account deactivated successfully">>,
           CancelPendingOfUser(requests, caller),
           DeactivateBooksOfUser(books, caller),
           [users EXCEPT ![caller].isActive = FALSE])

\* PUT /api/admin/users/:id with isActive in the body.
adminUpdateUser(userId, isActive) ==
  IF userId \notin Users THEN Fail(404, <<"User not found">>)
  ELSE Response(200, <<"User updated successfully">>, requests, books,
                [users EXCEPT ![userId].isActive = isActive])

adminDeleteUser(userId) ==
  IF userId \notin Users THEN Fail(404, <<"User not found">>)
  ELSE Response(200, <<"User deactivated successfully">>,
                CancelPendingOfUser(requests, userId),
                DeactivateBooksOfUser(books, userId),
                [users EXCEPT ![userId].isActive = FALSE])

\* PUT /api/admin/books/:id with isActive in the body (availability is no
\* path of the schema and is dropped).
adminUpdateBook(bookId, isActive) ==
  IF bookId \notin BookIds THEN Fail(404, <<"Book not found">>)
  ELSE Response(200, <<"Book updated successfully">>, requests,
                [books EXCEPT ![bookId].isActive = isActive], users)

\* Request.updateMany({book, status: pending}, {status: cancelled}).
CancelPendingOfBook(reqs, bookId) ==
  [id \in 1..Len(reqs) |->
     IF reqs[id].status = "pending" /\ reqs[id].book = bookId
     THEN [reqs[id] EXCEPT !.status = "cancelled"]
     ELSE reqs[id]]

\* DELETE /api/admin/books/:id: after the updateMany, book.availability is
\* undefined, so book.availability.status = ... throws before book.save().
adminDeleteBook(bookId) ==
  IF bookId \notin BookIds THEN Fail(404, <<"Book not found">>)
  ELSE Response(500, <<"Cannot set properties of undefined">>,
                CancelPendingOfBook(requests, bookId), books, users)

\* PUT /api/admin/requests/:id: findByIdAndUpdate(id, {status}) with
\* runValidators, so the enum and the unique index decide.
adminUpdateRequest(id, status) ==
  IF status = Undefined
  THEN IF Exists(id) THEN Fail(200, <<"Request updated successfully">>)
       ELSE Fail(404, <<"Request not found">>)
  ELSE IF status \notin StatusEnum
  THEN Fail(500, <<"Validation failed: status", status>>)
  ELSE IF ~Exists(id) THEN Fail(404, <<"Request not found">>)
  ELSE IF DuplicatePending(requests, id, [requests[id] EXCEPT !.status = status])
  THEN Fail(500, <<"E11000 duplicate key error">>)
  ELSE Response(200, <<"Request updated successfully">>,
                [requests EXCEPT ![id].status = status], books, users)

-----------------------------------------------------------------------------
(* middleware/auth.js, middleware/validation.js, routes/*.js *)

\* auth: the token's user must exist and be active.
\* Mutant: isActive is not read.
authAnyAccount(caller) == caller \in Users

auth(caller) == caller \in Users /\ users[caller].isActive

Unauthorized == Fail(401, <<"Account is deactivated.">>)

\* Mutant: the body schema admits any status.
updateRequestSchemaAny(status) == TRUE

\* updateRequestSchema: status, when present, is accepted or completed.
updateRequestSchema(status) == status \in {"accepted", "completed", Undefined}

\* PUT /api/requests/:id
PutRequest(caller, id, status) ==
  IF ~auth(caller) THEN Unauthorized
  ELSE IF ~updateRequestSchema(status)
  THEN Fail(400, <<"status must be one of [accepted, completed]">>)
  ELSE updateRequest(caller, id, status)

\* POST /api/requests (createRequestSchema admits the Types only)
PostRequest(caller, bookId, type, offeredBooks) ==
  IF ~auth(caller) THEN Unauthorized
  ELSE createRequest(caller, bookId, type, offeredBooks)

\* DELETE /api/requests/:id
DeleteRequest(caller, id) ==
  IF ~auth(caller) THEN Unauthorized ELSE deleteRequest(caller, id)

\* rateRequestSchema: rating is a number from 1 to 5.
rateRequestSchema(rating) == rating >= 1 /\ rating <= 5

\* POST /api/requests/:id/rate
PostRate(caller, id, rating) ==
  IF ~auth(caller) THEN Unauthorized
  ELSE IF ~rateRequestSchema(rating)
  THEN Fail(400, <<"rating must be between 1 and 5">>)
  ELSE rateRequest(caller, id, rating)

\* Mutant: the body schema admits an owner key.
updateBookSchemaAny(body) == TRUE

\* updateBookSchema: status, when present, is a book status; owner is no key
\* of the schema, and a key the schema does not know is an error.
updateBookSchema(body) ==
  /\ body.status \in BookStatuses \cup {Undefined}
  /\ body.owner = Undefined

\* PUT /api/books/:id
PutBook(caller, bookId, body) ==
  IF ~auth(caller) THEN Unauthorized
  ELSE IF ~updateBookSchema(body)
  THEN Fail(400, <<"\"owner\" is not allowed">>)
  ELSE updateBook(caller, bookId, body)

\* DELETE /api/books/:id
DeleteBook(caller, bookId) ==
  IF ~auth(caller) THEN Unauthorized ELSE deleteBook(caller, bookId)

\* DELETE /api/users/account
DeleteAccount(caller) ==
  IF ~auth(caller) THEN Unauthorized ELSE deactivateAccount(caller)

-----------------------------------------------------------------------------
(* The store after construction: the seeded accounts and one book each. *)

SeedOwner(b) == IF b = "b1" THEN "alice" ELSE "bob"

Init ==
  /\ users = [u \in Users |->
                [isActive |-> TRUE,
                 rating |-> [average |-> <<0, 1>>, count |-> 0]]]
  /\ books = [b \in BookIds |->
                [owner |-> SeedOwner(b), status |-> "Available", isActive |-> TRUE]]
  /\ requests = <<>>
  /\ calls = EmptyBag

\* The store takes the state a handler left.
Commit(r) ==
  /\ <<r.requests, r.books, r.users>> # <<requests, books, users>>
  /\ requests' = r.requests
  /\ books' = r.books
  /\ users' = r.users

\* Ids a caller can name: the stored ones and one that names nothing.
IdInputs == 1..(Len(requests) + 1)
BookInputs == BookIds \cup {MissingBook}
OfferInputs == BookIds \cup {MissingBook, NoBook}

\* A free request carries no offered book the handler would read.
Offers(t) == IF t = "exchange" THEN OfferInputs ELSE {NoBook}

\* Request.create is bounded by the model: at most MaxRequests documents.
Room(r) == Len(r.requests) <= MaxRequests

DoPostRequest ==
  \E u \in Users, b \in BookInputs, t \in Types : \E o \in Offers(t) :
    LET r == PostRequest(u, b, t, o) IN
    Room(r) /\ Commit(r) /\ UNCHANGED calls

DoPutRequest ==
  \E u \in Users, id \in IdInputs, s \in StatusInputs :
    Commit(PutRequest(u, id, s)) /\ UNCHANGED calls

DoDeleteRequest ==
  \E u \in Users, id \in IdInputs :
    Commit(DeleteRequest(u, id)) /\ UNCHANGED calls

\* The ratings given so far, bounded by the model: at most MaxRatings.
RatingsGiven(usrs) ==
  LET RECURSIVE Sum(_)
      Sum(S) == IF S = {} THEN 0
                ELSE LET u == CHOOSE u \in S : TRUE
                     IN usrs[u].rating.count + Sum(S \ {u})
  IN Sum(Users)

DoPostRate ==
  \E u \in Users, id \in IdInputs, x \in RatingInputs :
    LET r == PostRate(u, id, x) IN
    RatingsGiven(r.users) <= MaxRatings /\ Commit(r) /\ UNCHANGED calls

DoPutBook ==
  \E u \in Users, b \in BookInputs, body \in BookBodies :
    Commit(PutBook(u, b, body)) /\ UNCHANGED calls

DoDeleteBook ==
  \E u \in Users, b \in BookInputs :
    Commit(DeleteBook(u, b)) /\ UNCHANGED calls

DoDeleteAccount ==
  \E u \in Users : Commit(DeleteAccount(u)) /\ UNCHANGED calls

DoAdminUpdateUser ==
  \E u \in Users, a \in BOOLEAN :
    Commit(adminUpdateUser(u, a)) /\ UNCHANGED calls

DoAdminDeleteUser ==
  \E u \in Users : Commit(adminDeleteUser(u)) /\ UNCHANGED calls

DoAdminUpdateBook ==
  \E b \in BookInputs, a \in BOOLEAN :
    Commit(adminUpdateBook(b, a)) /\ UNCHANGED calls

DoAdminDeleteBook ==
  \E b \in BookInputs : Commit(adminDeleteBook(b)) /\ UNCHANGED calls

DoAdminUpdateRequest ==
  \E id \in IdInputs, s \in StatusInputs :
    Commit(adminUpdateRequest(id, s)) /\ UNCHANGED calls

\* The request controller called directly (no body validation in front).
CtlCreateRequest ==
  \E u \in Users, b \in BookInputs, t \in Types : \E o \in Offers(t) :
    LET r == createRequest(u, b, t, o) IN
    Room(r) /\ Commit(r) /\ UNCHANGED calls

CtlUpdateRequest ==
  \E u \in Users, id \in IdInputs, s \in StatusInputs :
    Commit(updateRequest(u, id, s)) /\ UNCHANGED calls

CtlDeleteRequest ==
  \E u \in Users, id \in IdInputs :
    Commit(deleteRequest(u, id)) /\ UNCHANGED calls

-----------------------------------------------------------------------------
(* createRequest with other calls running between its awaits: calls is the
   bag of the calls that passed their checks and have yet to insert, each
   with the requestData it built. *)

\* auth and the handler up to the await of Request.create.
ConcCreateRequestChecks ==
  \E u \in Users, b \in BookInputs, t \in Types : \E o \in Offers(t) :
    LET chk == createRequestChecks(u, b, t, o) IN
    /\ BagCardinality(calls) < MaxCalls
    /\ auth(u)
    /\ chk.code = 0
    /\ calls' = calls (+) SetToBag({chk.data})
    /\ UNCHANGED <<users, books, requests>>

\* Request.create resumes: it inserts, or the unique index refuses it (500).
ConcRequestCreate ==
  \E data \in BagToSet(calls) :
    LET r == RequestCreate(data) IN
    /\ Room(r)
    /\ requests' = r.requests
    /\ calls' = calls (-) SetToBag({data})
    /\ UNCHANGED <<users, books>>

-----------------------------------------------------------------------------
(* updateRequest with other calls running between its awaits: a call that
   passed its checks is kept in calls with the request document it read and
   the await it is suspended at: "request" (Request.findByIdAndUpdate),
   "book" (Book.findByIdAndUpdate on the target book) or "offered"
   (Book.findByIdAndUpdate on the offered book). *)

UpdateCall(caller, id, status, pc) ==
  [caller |-> caller, id |-> id, status |-> status, request |-> requests[id],
   pc |-> pc]

\* The call c moves on to the await pc, or returns (pc = "done").
Resume(c, pc) ==
  IF pc = "done" THEN calls (-) SetToBag({c})
  ELSE (calls (-) SetToBag({c})) (+) SetToBag({[c EXCEPT !.pc = pc]})

\* Book.findByIdAndUpdate(request.book, ...) of an accept or a completion.
TargetBookUpdate(bks, request, status) ==
  IF status = "completed"
  THEN [bks EXCEPT ![request.book].status = "Not Available",
                   ![request.book].owner = request.requester]
  ELSE [bks EXCEPT ![request.book].status = "Not Available"]

\* Book.findByIdAndUpdate(request.offeredBooks, ...) of a completed exchange.
OfferedBookUpdate(bks, request) ==
  [bks EXCEPT ![request.offeredBooks].status = "Not Available",
              ![request.offeredBooks].owner = request.owner]

\* POST /api/requests while calls interleave, bounded by the model: at most
\* MaxRacedRequests documents.
AwaitCreateRequest == Len(requests) < MaxRacedRequests /\ DoPostRequest

\* auth, the body schema and the handler down to its transition check, all
\* passed on the document Request.findById returned.
AwaitFindById ==
  \E u \in Users, id \in IdInputs, s \in StatusInputs :
    /\ BagCardinality(calls) < MaxCalls
    /\ PutRequest(u, id, s).code = 200
    /\ calls' = calls (+) SetToBag({UpdateCall(u, id, s, "request")})
    /\ UNCHANGED <<users, books, requests>>

\* Request.findByIdAndUpdate(id, updateData) resumes: the write carries no
\* condition on the stored status.
AwaitRequestUpdate ==
  \E c \in BagToSet(calls) :
    /\ c.pc = "request"
    /\ requests' = IF Exists(c.id) THEN RequestUpdate(requests, c.id, c.status)
                   ELSE requests
    /\ calls' = Resume(c, IF c.status \in {"accepted", "completed"}
                          THEN "book" ELSE "done")
    /\ UNCHANGED <<users, books>>

\* The write to the target book resumes.
AwaitBookUpdate ==
  \E c \in BagToSet(calls) :
    /\ c.pc = "book"
    /\ books' = TargetBookUpdate(books, c.request, c.status)
    /\ calls' = Resume(c, IF /\ c.status = "completed"
                             /\ c.request.type = "exchange"
                             /\ c.request.offeredBooks # NoBook
                          THEN "offered" ELSE "done")
    /\ UNCHANGED <<users, requests>>

\* The write to the offered book resumes.
AwaitOfferedBookUpdate ==
  \E c \in BagToSet(calls) :
    /\ c.pc = "offered"
    /\ books' = OfferedBookUpdate(books, c.request)
    /\ calls' = Resume(c, "done")
    /\ UNCHANGED <<users, requests>>

\* An awaited book write rejects (the store is unreachable): the catch block
\* answers 500 and what was written before stays written.
AwaitRejects ==
  \E c \in BagToSet(calls) :
    /\ c.pc \in {"book", "offered"}
    /\ calls' = Resume(c, "done")
    /\ UNCHANGED <<users, books, requests>>

\* A rateRequest call suspended at an await: the side the caller rates as,
\* the counterparty, and the counterparty's rating as User.findById read it.
RateCall(caller, id, rating, pc) ==
  LET isRequester == requests[id].requester = caller
      counterparty == IF isRequester THEN requests[id].owner
                      ELSE requests[id].requester
  IN [caller |-> caller, id |-> id, rating |-> rating,
      side |-> IF isRequester THEN "requesterRating" ELSE "ownerRating",
      counterparty |-> counterparty,
      userRating |-> users[counterparty].rating, pc |-> pc]

\* auth, the body schema and the handler's checks, all passed on the
\* document Request.findById returned; bounded by the model: at most
\* MaxRatings ratings given or under way.
AwaitRateFindById ==
  \E u \in Users, id \in IdInputs, x \in Ratings :
    /\ BagCardinality(calls) < MaxCalls
    /\ RatingsGiven(users) + BagCardinality(calls) < MaxRatings
    /\ PostRate(u, id, x).code = 200
    /\ calls' = calls (+) SetToBag({RateCall(u, id, x, "user")})
    /\ UNCHANGED <<users, books, requests>>

\* User.findById(counterparty) resumes with the user as stored now.
AwaitUserFindById ==
  \E c \in BagToSet(calls) :
    /\ c.pc = "user"
    /\ calls' = (calls (-) SetToBag({c}))
                  (+) SetToBag({[c EXCEPT
                                   !.userRating = users[c.counterparty].rating,
                                   !.pc = "userSave"]})
    /\ UNCHANGED <<users, books, requests>>

\* counterparty.updateRating(rating): the rating computed on the document
\* read is saved.
AwaitUpdateRating ==
  \E c \in BagToSet(calls) :
    /\ c.pc = "userSave"
    /\ users' = [users EXCEPT ![c.counterparty].rating =
                                updateRating(c.userRating, c.rating)]
    /\ calls' = Resume(c, "requestSave")
    /\ UNCHANGED <<books, requests>>

\* request.save(): the rating field set on the document read is saved.
AwaitRequestSave ==
  \E c \in BagToSet(calls) :
    /\ c.pc = "requestSave"
    /\ requests' = [requests EXCEPT ![c.id].rating[c.side] = c.rating]
    /\ calls' = Resume(c, "done")
    /\ UNCHANGED <<users, books>>

\* request.save() rejects (the store is unreachable): the catch block
\* answers 500 and the user saved before stays saved.
AwaitRequestSaveRejects ==
  \E c \in BagToSet(calls) :
    /\ c.pc = "requestSave"
    /\ calls' = Resume(c, "done")
    /\ UNCHANGED <<users, books, requests>>

-----------------------------------------------------------------------------
(* Specifications *)

\* The request routes and the book routes.
Next ==
  \/ DoPostRequest
  \/ DoPutRequest
  \/ DoPutBook
  \/ DoDeleteBook
  \/ DoAdminUpdateBook

\* The request routes, account deactivation and the admin's moderation.
NextAdmin ==
  \/ DoPostRequest
  \/ DoPutRequest
  \/ DoDeleteRequest
  \/ DoDeleteAccount
  \/ DoAdminDeleteUser
  \/ DoAdminDeleteBook
  \/ DoAdminUpdateRequest

\* The request controller alone, any status in the body.
NextCtl == CtlCreateRequest \/ CtlUpdateRequest \/ CtlDeleteRequest

\* createRequest interleaved with itself and with updateRequest.
NextConc ==
  \/ ConcCreateRequestChecks
  \/ ConcRequestCreate
  \/ DoPutRequest

\* The request routes alone: creation and the transition endpoint.
NextRequests == DoPostRequest \/ DoPutRequest

\* Request creation beside the book routes.
NextBooks ==
  \/ DoPostRequest
  \/ DoPutBook
  \/ DoDeleteBook
  \/ DoAdminUpdateBook

\* The request routes with the rating route.
NextRate == DoPostRequest \/ DoPutRequest \/ DoPostRate

\* updateRequest interleaved at its awaits, with request creation and
\* account deactivation.
NextAwait ==
  \/ AwaitCreateRequest
  \/ DoDeleteAccount
  \/ AwaitFindById
  \/ AwaitRequestUpdate
  \/ AwaitBookUpdate
  \/ AwaitOfferedBookUpdate
  \/ AwaitRejects

\* The request routes with account deactivation and the admin's user routes.
NextAccounts ==
  \/ DoPostRequest
  \/ DoPutRequest
  \/ DoDeleteAccount
  \/ DoAdminDeleteUser
  \/ DoAdminUpdateUser

\* The request routes with the owner's update of a book.
NextOwnership == DoPostRequest \/ DoPutRequest \/ DoPutBook

\* rateRequest interleaved at its awaits, with request creation and the
\* transition endpoint.
NextRating ==
  \/ AwaitCreateRequest
  \/ DoPutRequest
  \/ AwaitRateFindById
  \/ AwaitUserFindById
  \/ AwaitUpdateRating
  \/ AwaitRequestSave
  \/ AwaitRequestSaveRejects

\* The operations open to a user that write requests or deactivate books.
NextUser ==
  \/ DoPostRequest
  \/ DoPutRequest
  \/ DoDeleteBook
  \/ DoDeleteAccount

Spec == Init /\ [][Next]_vars
SpecUser == Init /\ [][NextUser]_vars
SpecRating == Init /\ [][NextRating]_vars
SpecOwnership == Init /\ [][NextOwnership]_vars
SpecAccounts == Init /\ [][NextAccounts]_vars
SpecAwait == Init /\ [][NextAwait]_vars
SpecRequests == Init /\ [][NextRequests]_vars
SpecBooks == Init /\ [][NextBooks]_vars
SpecRate == Init /\ [][NextRate]_vars
SpecAdmin == Init /\ [][NextAdmin]_vars
SpecCtl == Init /\ [][NextCtl]_vars
SpecConc == Init /\ [][NextConc]_vars

-----------------------------------------------------------------------------
(* Properties *)

\* The transition table of the request lifecycle, with its actor column.
TransitionTable ==
  {<<"pending", "accepted">>, <<"pending", "rejected">>,
   <<"pending", "cancelled">>, <<"accepted", "completed">>,
   <<"accepted", "cancelled">>}

AllowedActor(request, caller, status) ==
  CASE status \in {"accepted", "rejected"} -> caller = request.owner
    [] status = "cancelled" -> caller = request.requester
    [] status = "completed" -> caller \in {request.requester, request.owner}
    [] OTHER -> TRUE

Names(msg, word) == \E i \in 1..Len(msg) : msg[i] = word

HasPending(u, b) ==
  \E id \in LiveIds :
    /\ requests[id].requester = u
    /\ requests[id].book = b
    /\ requests[id].status = "pending"

\* C1: every change of a stored request's status, whichever route makes it,
\* goes along an edge of the transition table.
C1_StatusFollowsTable ==
  [][\A id \in 1..Len(requests) :
       (requests'[id].status # requests[id].status
          /\ requests'[id].status # "deleted")
       => <<requests[id].status, requests'[id].status>> \in TransitionTable]_vars

\* C2: updateRequest by an allowed actor on a (current, target) pair outside
\* the table answers 400 with a message naming both statuses and writes
\* nothing; on a rejected, completed or cancelled request no call succeeds.
C2_InvalidTransitionRefused ==
  \A u \in Users, id \in LiveIds, s \in StatusInputs :
    LET request == requests[id]
        r == updateRequest(u, id, s)
    IN /\ (AllowedActor(request, u, s)
             /\ <<request.status, s>> \notin TransitionTable)
          => /\ r.code = 400
             /\ Names(r.msg, request.status) /\ Names(r.msg, s)
             /\ r.requests = requests
             /\ r.books = books
       /\ request.status \in {"rejected", "completed", "cancelled"}
          => r.code # 200 /\ r.requests = requests /\ r.books = books

\* C2 witness: a rejected request, which its owner asks to accept after all.
C2_Witness ==
  \E id \in LiveIds :
    /\ requests[id].status = "rejected"
    /\ updateRequest(requests[id].owner, id, "accepted").code = 400

\* C3: updateRequest succeeds only for the allowed actor of the target
\* status; any other caller gets 403 and nothing is written.
C3_OnlyAllowedActor ==
  \A u \in Users, id \in LiveIds, s \in Statuses :
    LET r == updateRequest(u, id, s) IN
    /\ r.code = 200 => AllowedActor(requests[id], u, s)
    /\ ~AllowedActor(requests[id], u, s)
       => r.code = 403 /\ r.requests = requests /\ r.books = books

\* C3 witness: an accepted request that a user who is no party to it asks
\* to complete, and is refused.
C3_Witness ==
  \E id \in LiveIds, u \in Users :
    /\ requests[id].status = "accepted"
    /\ u \notin {requests[id].requester, requests[id].owner}
    /\ updateRequest(u, id, "completed").code = 403
    /\ updateRequest(requests[id].requester, id, "completed").code = 200

\* C4: at most one pending request per (requester, book), in every state of
\* interleaved createRequest calls.
C4_OnePendingPerPair ==
  \A i, j \in LiveIds :
    (/\ i # j
     /\ requests[i].status = "pending"
     /\ requests[j].status = "pending"
     /\ requests[i].requester = requests[j].requester)
    => requests[i].book # requests[j].book

\* C4 witness: a pending request stored while another call of the same
\* requester for the same book, past its checks, is still to insert.
C4_Witness ==
  \E id \in LiveIds, data \in BagToSet(calls) :
    /\ requests[id].status = "pending"
    /\ data.requester = requests[id].requester
    /\ data.book = requests[id].book

\* C5 as stated: while a requester has a pending request for a book, a
\* further createRequest of theirs for it is answered 400 and creates nothing.
C5_DuplicateAnswered400 ==
  \A u \in Users, b \in BookIds, t \in Types : \A o \in Offers(t) :
    LET r == createRequest(u, b, t, o) IN
    HasPending(u, b) => r.code = 400 /\ r.requests = requests

\* C5 amended: such a call creates nothing and is answered 400 while the
\* book is active, 404 once the book is inactive; with no pending request of
\* the caller for the book, the duplicate rejection is never the answer.
C5_DuplicateRefused ==
  \A u \in Users, b \in BookIds, t \in Types : \A o \in Offers(t) :
    LET r == createRequest(u, b, t, o) IN
    /\ HasPending(u, b)
       => /\ r.code = (IF books[b].isActive THEN 400 ELSE 404)
          /\ r.requests = requests
          /\ r.books = books
    /\ ~HasPending(u, b)
       => r.msg # <<"You already have a pending request for this book">>

\* C5 witness: a requester whose first request for a book was accepted holds
\* a second, pending one for it, and a third attempt is refused.
C5_Witness ==
  \E i, j \in LiveIds :
    /\ requests[i].status = "accepted"
    /\ requests[j].status = "pending"
    /\ requests[i].requester = requests[j].requester
    /\ requests[i].book = requests[j].book
    /\ createRequest(requests[j].requester, requests[j].book, "free", NoBook).code = 400

\* C6: the target book of every accepted or completed request is
\* Not Available.
C6_AcceptedBookNotAvailable ==
  \A id \in LiveIds :
    requests[id].status \in {"accepted", "completed"}
    => books[requests[id].book].status = "Not Available"

\* C7: completing an accepted request makes the requester the owner of the
\* target book, for an exchange the recorded owner the owner of the offered
\* book, and stamps the request; a free request moves no other book.
C7_CompletionTransfers ==
  \A u \in Users, id \in LiveIds :
    LET request == requests[id]
        r == updateRequest(u, id, "completed")
    IN (request.status = "accepted" /\ r.code = 200)
       => /\ r.requests[id].status = "completed"
          /\ r.requests[id].completedAt
          /\ r.books[request.book].owner = request.requester
          /\ request.type = "exchange"
             => /\ request.offeredBooks \in BookIds
                /\ r.books[request.offeredBooks].owner = request.owner
          /\ request.type = "free"
             => \A b \in BookIds \ {request.book} :
                  r.books[b].owner = books[b].owner

\* C7 witness: a completed exchange, both books in their new hands.
C7_Witness ==
  \E id \in LiveIds :
    /\ requests[id].status = "completed"
    /\ requests[id].completedAt
    /\ requests[id].type = "exchange"
    /\ books[requests[id].book].owner = requests[id].requester
    /\ books[requests[id].offeredBooks].owner = requests[id].owner

\* C8: accepting a pending request is the recorded owner's act; it marks the
\* target book Not Available and the request accepted, and leaves the book's
\* owner, every other book and every other request as they were.
C8_AcceptFrame ==
  \A u \in Users, id \in LiveIds :
    LET request == requests[id]
        r == updateRequest(u, id, "accepted")
    IN (request.status = "pending" /\ r.code = 200)
       => /\ u = request.owner
          /\ r.requests = [requests EXCEPT ![id].status = "accepted"]
          /\ r.books = [books EXCEPT ![request.book].status = "Not Available"]
          /\ r.users = users

\* C8 witness: an accepted exchange whose target book is Not Available and
\* whose offered book is still Available with the requester.
C8_Witness ==
  \E id \in LiveIds :
    /\ requests[id].status = "accepted"
    /\ requests[id].type = "exchange"
    /\ books[requests[id].book].status = "Not Available"
    /\ books[requests[id].book].owner = requests[id].owner
    /\ books[requests[id].offeredBooks].status = "Available"
    /\ books[requests[id].offeredBooks].owner = requests[id].requester

\* C9: a transition to rejected or cancelled writes no book; the target book
\* of an accepted request that is cancelled stays Not Available.
C9_NoBookMutation ==
  \A u \in Users, id \in LiveIds, s \in {"rejected", "cancelled"} :
    LET request == requests[id]
        r == updateRequest(u, id, s)
    IN r.code = 200
       => /\ r.requests[id].status = s
          /\ r.books = books
          /\ (request.status = "accepted"
                /\ books[request.book].status = "Not Available")
             => r.books[request.book].status = "Not Available"

\* C9 witness: the only request ever made was accepted and then cancelled,
\* and its target book is still Not Available.
C9_Witness ==
  /\ Len(requests) = 1
  /\ requests[1].status = "cancelled"
  /\ books[requests[1].book].status = "Not Available"

\* C10: createRequest stores a request only for an existing, active,
\* Available book the caller does not own and has no pending request for;
\* the new request is pending, from the caller, to the book's owner, and no
\* book or other request is touched.
C10_CreateOnlyWhenAllowed ==
  \A u \in Users, b \in BookInputs, t \in Types : \A o \in Offers(t) :
    LET r == createRequest(u, b, t, o)
        n == Len(requests) + 1
    IN IF r.code = 201
       THEN /\ b \in BookIds
            /\ books[b].isActive
            /\ books[b].status = "Available"
            /\ books[b].owner # u
            /\ ~HasPending(u, b)
            /\ Len(r.requests) = n
            /\ SubSeq(r.requests, 1, n - 1) = requests
            /\ r.requests[n].status = "pending"
            /\ r.requests[n].requester = u
            /\ r.requests[n].book = b
            /\ r.requests[n].owner = books[b].owner
            /\ r.books = books
       ELSE r.requests = requests /\ r.books = books

\* C10 witness: a stored pending request for an active, Available book of
\* another user's.
C10_Witness ==
  \E id \in LiveIds :
    /\ requests[id].status = "pending"
    /\ books[requests[id].book].owner = requests[id].owner
    /\ requests[id].owner # requests[id].requester
    /\ books[requests[id].book].isActive
    /\ books[requests[id].book].status = "Available"

ValidOffer(u, o) ==
  /\ o \in BookIds
  /\ books[o].owner = u
  /\ books[o].isActive
  /\ books[o].status = "Available"

C13_MissingOfferNotFound ==
  \A u \in Users, b \in BookIds :
    (/\ books[b].isActive
     /\ books[b].status = "Available"
     /\ books[b].owner # u
     /\ ~HasPending(u, b))
    => createRequest(u, b, "exchange", MissingBook).code = 404

\* The side of a request its caller rates from, and the user that rating
\* goes to.
Side(request, u) ==
  IF u = request.requester THEN "requesterRating" ELSE "ownerRating"

Counterparty(request, u) ==
  IF u = request.requester THEN request.owner ELSE request.requester

\* C14: rating a request succeeds only on a completed request, for its
\* requester or recorded owner, whose side has no rating yet, and records the
\* rating on that side, so that no later rating from the side succeeds;
\* otherwise the answer is 400 (not completed), 403 (not a party) or 400
\* already rated, and a failed call changes no request and no user.
C14_RateOnlyOnce ==
  \A u \in Users, id \in LiveIds, x \in RatingInputs :
    LET request == requests[id]
        r == PostRate(u, id, x)
        party == u \in {request.requester, request.owner}
        rated == request.rating[Side(request, u)] # Unrated
    IN /\ r.code = 200
          => /\ request.status = "completed"
             /\ party
             /\ ~rated
             /\ r.requests[id].rating[Side(request, u)] = x
             /\ x # Unrated
       /\ (auth(u) /\ x \in Ratings)
          => /\ request.status # "completed" => r.code = 400
             /\ (request.status = "completed" /\ ~party) => r.code = 403
             /\ (request.status = "completed" /\ party /\ rated)
                => /\ r.code = 400
                   /\ r.msg = <<"You have already rated this request">>
       /\ r.code # 200
          => r.requests = requests /\ r.users = users /\ r.books = books

\* C14 witness: a completed request its requester has rated and its owner
\* has not: the requester is refused, the owner accepted, a third user
\* forbidden.
C14_Witness ==
  \E id \in LiveIds, u \in Users :
    /\ requests[id].status = "completed"
    /\ requests[id].rating.requesterRating # Unrated
    /\ requests[id].rating.ownerRating = Unrated
    /\ PostRate(requests[id].requester, id, 4).code = 400
    /\ PostRate(requests[id].owner, id, 4).code = 200
    /\ u \notin {requests[id].requester, requests[id].owner}
    /\ PostRate(u, id, 4).code = 403

DeleteRequestGuarded ==
  \A u \in Users, id \in LiveIds :
    LET request == requests[id]
        r == deleteRequest(u, id)
    IN /\ r.code = 200
          => /\ u = request.requester
             /\ request.status \in {"cancelled", "rejected"}
             /\ r.requests = [requests EXCEPT ![id] = Tombstone]
             /\ r.books = books
       /\ u # request.requester
          => r.code = 403 /\ r.requests = requests /\ r.books = books
       /\ (u = request.requester
             /\ request.status \in {"pending", "accepted", "completed"})
          => r.code = 400 /\ r.requests = requests /\ r.books = books

\* A step that removes requests removes cancelled or rejected ones only.
RemovesOnlyDead ==
  /\ Len(requests') >= Len(requests)
  /\ \A id \in 1..Len(requests) :
       (requests[id].status # "deleted" /\ requests'[id].status = "deleted")
       => requests[id].status \in {"cancelled", "rejected"}

\* C16: deleteRequest removes a request only for its requester and only when
\* it is cancelled or rejected; another caller gets 403, the requester of a
\* pending, accepted or completed request 400, the request staying stored;
\* and no step of the system removes a pending, accepted or completed request.
C16_DeleteOnlyDead == []DeleteRequestGuarded /\ [][RemovesOnlyDead]_vars

\* C16 witness: one request was removed; another, cancelled, is still
\* stored, which its owner may not delete and its requester may.
C16_Witness ==
  /\ \E id \in RequestIds : requests[id].status = "deleted"
  /\ \E id \in LiveIds :
       /\ requests[id].status = "cancelled"
       /\ deleteRequest(requests[id].owner, id).code = 403
       /\ deleteRequest(requests[id].requester, id).code = 200

\* C17: the requester of a pending request can cancel it through
\* PUT /api/requests/:id; once cancelled, a delete by its owner is answered
\* 403 and removes nothing, a delete by the requester removes it.
C17_RequesterCancelsThenDeletes ==
  \A id \in LiveIds :
    LET request == requests[id] IN
    /\ (request.status = "pending" /\ auth(request.requester))
       => LET r == PutRequest(request.requester, id, "cancelled") IN
          r.code = 200 /\ r.requests[id].status = "cancelled"
    /\ (request.status = "cancelled" /\ auth(request.owner))
       => LET r == DeleteRequest(request.owner, id) IN
          r.code = 403 /\ r.requests = requests
    /\ (request.status = "cancelled" /\ auth(request.requester))
       => LET r == DeleteRequest(request.requester, id) IN
          r.code = 200 /\ r.requests[id].status = "deleted"

\* C18: a step that sets a request to accepted or completed carries, in the
\* same step, the book changes of that transition.
C18_TransitionAtomic ==
  [][\A id \in 1..Len(requests) :
       (/\ requests'[id].status # requests[id].status
        /\ requests'[id].status \in {"accepted", "completed"})
       => books' = BookUpdates(books, requests[id], requests'[id].status)]_vars

\* The copies of call c suspended in the bag B.
Suspended(B, c) == IF c \in BagToSet(B) THEN CopiesIn(c, B) ELSE 0

\* C19: a call's write to a request is applied only when the stored status
\* is still the status the call read, and every change of a stored status
\* goes along an edge of the transition table.
C19_StatusCompareAndSet ==
  [][/\ \A c \in BagToSet(calls) :
          (c.pc = "request" /\ Suspended(calls', c) < Suspended(calls, c))
          => requests[c.id].status = c.request.status
     /\ \A id \in 1..Len(requests) :
          requests'[id].status # requests[id].status
          => <<requests[id].status, requests'[id].status>> \in TransitionTable]_vars

Completes(id) ==
  /\ requests[id].status # "completed"
  /\ requests'[id].status = "completed"

\* C21: a step that completes a request and hands its target book to the
\* requester takes the book from the request's recorded owner.
C21_TargetTakenFromRecordedOwner ==
  [][\A id \in 1..Len(requests) :
       (Completes(id)
          /\ books'[requests[id].book].owner = requests[id].requester)
       => books[requests[id].book].owner = requests[id].owner]_vars

\* C22: a step that completes an exchange and hands its offered book to the
\* recorded owner takes the book from the request's requester.
C22_OfferTakenFromRequester ==
  [][\A id \in 1..Len(requests) :
       (/\ Completes(id)
        /\ requests[id].type = "exchange"
        /\ requests[id].offeredBooks \in BookIds
        /\ books'[requests[id].offeredBooks].owner = requests[id].owner)
       => books[requests[id].offeredBooks].owner = requests[id].requester]_vars

\* The pending requests for a book.
PendingFor(reqs, b) ==
  {id \in 1..Len(reqs) : reqs[id].status = "pending" /\ reqs[id].book = b}

\* C25: the admin's deleteBook on a book with pending requests reports
\* success and leaves the requests cancelled and the book inactive.
C25_AdminDeleteBookCompletes ==
  \A b \in BookIds :
    PendingFor(requests, b) # {} =>
      LET r == adminDeleteBook(b) IN
      /\ r.code = 200
      /\ PendingFor(r.requests, b) = {}
      /\ ~r.books[b].isActive

\* The accepted requests for a book.
AcceptedFor(b) ==
  {id \in LiveIds : requests[id].status = "accepted" /\ requests[id].book = b}

\* C26: at most one request per target book is accepted.
C26_OneAcceptedPerBook ==
  \A b \in BookIds : Cardinality(AcceptedFor(b)) <= 1

\* A request a user is party to, as requester or as recorded owner.
Involves(req, u) == req.requester = u \/ req.owner = u

\* What the deactivation of u leaves: u inactive, the pending requests
\* involving u cancelled, every other request as it was.
Deactivated(r, u) ==
  /\ ~r.users[u].isActive
  /\ Len(r.requests) = Len(requests)
  /\ \A id \in 1..Len(requests) :
       IF requests[id].status = "pending" /\ Involves(requests[id], u)
       THEN r.requests[id] = [requests[id] EXCEPT !.status = "cancelled"]
       ELSE r.requests[id] = requests[id]
  /\ \A id \in 1..Len(r.requests) :
       Involves(r.requests[id], u) => r.requests[id].status # "pending"

Refused401(r) ==
  /\ r.code = 401
  /\ r.requests = requests
  /\ r.books = books
  /\ r.users = users

\* Every call an inactive user makes on the request endpoints is refused.
InactiveRefused ==
  \A u \in Users :
    ~users[u].isActive =>
      /\ \A b \in BookInputs, t \in Types : \A o \in Offers(t) :
           Refused401(PostRequest(u, b, t, o))
      /\ \A id \in IdInputs :
           /\ \A s \in StatusInputs : Refused401(PutRequest(u, id, s))
           /\ \A x \in RatingInputs : Refused401(PostRate(u, id, x))
           /\ Refused401(DeleteRequest(u, id))

\* An inactive user becomes active only by the admin's updateUser.
ReactivatedByAdmin ==
  \A u \in Users :
    (~users[u].isActive /\ users'[u].isActive) =>
      /\ users' = adminUpdateUser(u, TRUE).users
      /\ requests' = requests
      /\ books' = books

\* C24: while a user is inactive every createRequest, updateRequest,
\* rateRequest and deleteRequest made with their identity is answered 401
\* and changes no request, book or rating; the user stays inactive until the
\* admin's updateUser sets isActive back to true.
C24_InactiveUserRefused ==
  []InactiveRefused /\ [][ReactivatedByAdmin]_vars

\* An inactive user whose completion the controller itself would carry out.
C24_Witness ==
  \E u \in Users, id \in LiveIds :
    /\ ~users[u].isActive
    /\ updateRequest(u, id, "completed").code = 200
    /\ PutRequest(u, id, "completed").code = 401

\* A response whose store has every book with the owner it had.
SameOwners(r) == \A b \in BookIds : r.books[b].owner = books[b].owner

\* Every operation but a completion, on every input, leaves the owners.
OwnersFramed ==
  /\ \A u \in Users :
       /\ \A b \in BookInputs :
            /\ \A t \in Types : \A o \in Offers(t) :
                 SameOwners(PostRequest(u, b, t, o))
            /\ \A body \in BookBodies : SameOwners(PutBook(u, b, body))
            /\ SameOwners(DeleteBook(u, b))
       /\ \A id \in IdInputs :
            /\ \A s \in StatusInputs \ {"completed"} :
                 SameOwners(updateRequest(u, id, s))
            /\ \A x \in RatingInputs : SameOwners(PostRate(u, id, x))
            /\ SameOwners(DeleteRequest(u, id))
       /\ SameOwners(DeleteAccount(u))
       /\ SameOwners(adminDeleteUser(u))
       /\ \A a \in BOOLEAN : SameOwners(adminUpdateUser(u, a))
  /\ \A b \in BookInputs :
       /\ SameOwners(adminDeleteBook(b))
       /\ \A a \in BOOLEAN : SameOwners(adminUpdateBook(b, a))
  /\ \A id \in IdInputs, s \in StatusInputs :
       SameOwners(adminUpdateRequest(id, s))

\* A step that changes a book's owner completes a request.
OwnerChangeCompletes ==
  (\E b \in BookIds : books'[b].owner # books[b].owner) =>
    \E id \in 1..Len(requests) : Completes(id)

\* C27: the owner of a book changes only in an updateRequest to completed:
\* createRequest, accept, reject, cancel, rateRequest, deleteRequest, the
\* owner's updateBook and deleteBook, deactivateAccount and the admin's
\* operations leave the owner of every book as it was.
C27_OwnerChangesOnlyOnCompletion ==
  []OwnersFramed /\ [][OwnerChangeCompletes]_vars

\* A book that changed hands and that its new owner then put back on offer
\* with updateBook.
C27_Witness ==
  \E b \in BookIds :
    /\ books[b].owner # SeedOwner(b)
    /\ books[b].status = "Available"

\* Every stored request has a requester other than its recorded owner, and
\* createRequest writes nothing for a caller who owns the target book.
RequesterNotOwner ==
  /\ \A id \in LiveIds : requests[id].requester # requests[id].owner
  /\ \A u \in Users, b \in BookIds, t \in Types : \A o \in Offers(t) :
       books[b].owner = u =>
         LET r == createRequest(u, b, t, o) IN
         r.code \in {400, 404} /\ r.requests = requests

\* A response whose store has every request it kept with the parties it had.
SameParties(r) ==
  \A id \in 1..Len(requests) :
    /\ id <= Len(r.requests)
    /\ (requests[id].status # "deleted" /\ r.requests[id].status # "deleted") =>
         /\ r.requests[id].requester = requests[id].requester
         /\ r.requests[id].owner = requests[id].owner

\* The rating route, account deactivation and the admin's operations keep
\* the parties of every request.
PartiesFramed ==
  /\ \A u \in Users :
       /\ \A id \in IdInputs, x \in RatingInputs :
            SameParties(rateRequest(u, id, x))
       /\ SameParties(deactivateAccount(u))
       /\ SameParties(adminDeleteUser(u))
  /\ \A b \in BookInputs : SameParties(adminDeleteBook(b))
  /\ \A id \in IdInputs, s \in StatusInputs :
       SameParties(adminUpdateRequest(id, s))

\* A request that stays stored keeps its requester and its recorded owner.
PartiesKept ==
  \A id \in 1..Len(requests) :
    /\ id <= Len(requests')
    /\ (requests[id].status # "deleted" /\ requests'[id].status # "deleted") =>
         /\ requests'[id].requester = requests[id].requester
         /\ requests'[id].owner = requests[id].owner

\* C28: in every reachable state the requester of every stored request
\* differs from its recorded owner: createRequest refuses a caller who owns
\* the target book, and no step rewrites the requester or the recorded owner
\* of a request.
C28_RequesterIsNotOwner ==
  []RequesterNotOwner /\ []PartiesFramed /\ [][PartiesKept]_vars

\* A completed request whose requester now owns the target book, the
\* recorded owner being still the one who gave it.
C28_Witness ==
  \E id \in LiveIds :
    /\ requests[id].status = "completed"
    /\ books[requests[id].book].owner = requests[id].requester
    /\ requests[id].owner # requests[id].requester

\* The rating values recorded against a user: requesterRating on the
\* requests they are the recorded owner of, ownerRating on the requests they
\* made.
RecordedAgainst(u) ==
  Cardinality({id \in LiveIds : /\ requests[id].owner = u
                                /\ requests[id].rating.requesterRating # Unrated})
  + Cardinality({id \in LiveIds : /\ requests[id].requester = u
                                  /\ requests[id].rating.ownerRating # Unrated})

\* C29: for every user, rating.count is the number of rating values recorded
\* against them on requests, in every reachable state, two rateRequest calls
\* by the same rater interleaving and a failure between the two saves
\* included.
C29_CountMatchesRecorded ==
  \A u \in Users : users[u].rating.count = RecordedAgainst(u)

\* C30: under createRequest, updateRequest, the owner's deleteBook and
\* deactivateAccount, no pending request has an inactive target book.
C30_PendingBookActive ==
  \A id \in LiveIds :
    requests[id].status = "pending" => books[requests[id].book].isActive

====
